---- MODULE Spec2Model ----
(***************************************************************************)
(* A model of two pieces of markitdown:                                    *)
(*   converters/_doc_converter.py  DocConverter (legacy .doc -> .docx ->   *)
(*                                 Markdown through a staging directory)   *)
(*   converters/_markdownify.py    _CustomMarkdownify (anchor and image    *)
(*                                 rules of the HTML -> Markdown renderer) *)
(* SpecBridge runs NumProcs concurrent invocations of DocConverter.convert *)
(* against one file system.  SpecAnchor applies convert_a to bounded       *)
(* inputs.  SpecImage constructs renderer objects and runs convert_soup    *)
(* over bounded lists of <img> elements.                                   *)
(***************************************************************************)
EXTENDS Integers, Sequences, FiniteSets, TLC

\* ------------------------------------------------------------------ bounds
NumProcs == 2
MaxHrefLen == 3
MaxImgs == 2
MaxIndex == 2

Procs == 1..NumProcs
\* mkdtemp names; one per concurrent invocation is always enough because an
\* invocation creates at most one staging directory.
Dirs == 1..NumProcs

VARIABLES
  \* ---- _doc_converter.py
  olefile,        \* module global: TRUE iff `import olefile` succeeded
  DocxConverter,  \* module global: TRUE iff `from ._docx_converter import DocxConverter` succeeded
  platform,       \* sys.platform
  win32com,       \* TRUE iff `import win32com.client` succeeds
  fs,             \* the temp file system: directory name -> directory
  file_stream,    \* per invocation: the caller's stream
  pc,             \* per invocation: position in convert
  tmp_dir,        \* per invocation: local tmp_dir (0 = not yet assigned)
  docx_path,      \* per invocation: local docx_path ("" or "input.docx")
  word,           \* per invocation: local `word` of _convert_to_docx_windows
  pending,        \* per invocation: exception in flight / value being returned
  trace,          \* per invocation: external calls made so far, in order
  thrown,         \* per invocation: classes of the exceptions raised so far
  outcome,        \* per invocation: how convert ended
  \* ---- _markdownify.py
  anchor,         \* the last convert_a call: its arguments and its result
  options,        \* self.options of the current renderer object
  save_uri_index, \* self.save_uri_index of the current renderer object
  files,          \* files written by convert_img: set of paths
  render          \* the last convert_soup call on the current renderer object

bridgeVars == <<olefile, DocxConverter, platform, win32com, fs, file_stream, pc,
                tmp_dir, docx_path, word, pending, trace, thrown, outcome>>
anchorVars == <<anchor>>
imageVars == <<options, save_uri_index, files, render>>
vars == <<bridgeVars, anchorVars, imageVars>>

\* =====================================================================
\*                       _doc_converter.py
\* =====================================================================

\* The documents the callers convert, one per invocation.
DocBodies == <<"docA", "docB", "docC", "docD">>

Range(f) == {f[i] : i \in DOMAIN f}

OLE_MAGIC == "D0CF11E0A1B11AE1"
Headers == {OLE_MAGIC, "PK0304", ""}

\* olefile.isOleFile(file_stream): the stream starts with the compound-file magic.
IsOleFile(s) == s.header = OLE_MAGIC

\* line 80: `if not olefile.isOleFile(file_stream)`
NeverRejected(s) == FALSE
SignatureRejected(s) == ~IsOleFile(s)

\* ---- values
NoDir == [exists |-> FALSE, owner |-> 0, doc |-> <<>>, docx |-> <<>>]
NewDir(p) == [exists |-> TRUE, owner |-> p, doc |-> <<>>, docx |-> <<>>]

NoExc == [kind |-> "none", cls |-> "", text |-> <<>>]
Exc(c, t) == [kind |-> "raise", cls |-> c, text |-> t]
Ret(t) == [kind |-> "return", cls |-> "", text |-> t]

Ev(op) == [op |-> op, arg |-> 0]

\* MISSING_DEPENDENCY_MESSAGE.format(converter=..., extension=".doc", feature=f)
MissingDependencyMessage(f) == <<"DocConverter recognized the input as a potential .doc file, but the dependencies needed to read .doc files have not been installed: ", f>>

\* FileFormat=16 (line 141)
wdFormatDocumentDefault == 16

\* str(e) of the exception in flight, and the result the except clause builds
\* (lines 110-111).
ErrorResult(e) == Ret(<<"Error converting DOC file: ">> \o e.text)

\* The produced file's content, as the backend derives it from input.doc,
\* and the Markdown DocxConverter derives from the produced file.
ToDocx(doc) == IF doc = <<>> THEN <<>> ELSE <<"docx">> \o doc
DocxMarkdown(docx) == <<"markdown">> \o Tail(docx)

\* bytes.decode(errors="ignore") of the captured stderr (line 178): undecodable
\* bytes are dropped.
Stderrs == {<<>>, <<"Error: source file could not be loaded">>, <<"xFF">>}
Decode(bytes) == SelectSeq(bytes, LAMBDA b : b # "xFF")

\* line 178
ErrorMessage(stderr) == IF stderr # <<>> THEN Decode(stderr) ELSE <<"Unknown error.">>

\* ---- Init: the state when the invocations are entered
BridgeStart ==
  /\ fs = [d \in Dirs |-> NoDir]
  /\ pc = [p \in Procs |-> "start"]
  /\ tmp_dir = [p \in Procs |-> 0]
  /\ docx_path = [p \in Procs |-> ""]
  /\ word = [p \in Procs |-> "None"]
  /\ pending = [p \in Procs |-> NoExc]
  /\ trace = [p \in Procs |-> <<>>]
  /\ thrown = [p \in Procs |-> <<>>]
  /\ outcome = [p \in Procs |-> NoExc]

BridgeInit ==
  /\ olefile \in BOOLEAN
  /\ DocxConverter \in BOOLEAN
  /\ platform \in {"win32", "linux"}
  /\ win32com \in BOOLEAN
  /\ file_stream \in {f \in [Procs -> [header : Headers, body : Range(DocBodies)]] :
                        \A p \in Procs : f[p].body = DocBodies[p]}
  /\ BridgeStart

\* No conversion is requested: the state of the bridge under the renderer's
\* specifications.
BridgeIdle ==
  /\ olefile = TRUE
  /\ DocxConverter = TRUE
  /\ platform = "linux"
  /\ win32com = FALSE
  /\ file_stream = [p \in Procs |-> [header |-> OLE_MAGIC, body |-> DocBodies[p]]]
  /\ BridgeStart

\* The bytes of invocation p's stream after the header.
Body(p) == file_stream[p].body

env == <<olefile, DocxConverter, platform, win32com, file_stream>>

\* An exception leaves convert (raised outside the try block, or from the
\* finally clause).
Propagate(p, e) ==
  /\ outcome' = [outcome EXCEPT ![p] = e]
  /\ thrown' = [thrown EXCEPT ![p] = Append(@, e.cls)]
  /\ pc' = [pc EXCEPT ![p] = "done"]

\* An exception raised inside the try block (lines 93-108): the except clause
\* (lines 110-111) turns it into the value to return, and the finally clause
\* runs next.
Caught(p, e) ==
  /\ pending' = [pending EXCEPT ![p] = ErrorResult(e)]
  /\ thrown' = [thrown EXCEPT ![p] = Append(@, e.cls)]
  /\ pc' = [pc EXCEPT ![p] = "finally"]

Log(p, e) == trace' = [trace EXCEPT ![p] = Append(@, e)]

\* lines 65-84
Start(p) ==
  /\ pc[p] = "start"
  /\ IF ~olefile
       THEN Propagate(p, Exc("MissingDependencyException", MissingDependencyMessage("doc (olefile)")))
       ELSE /\ UNCHANGED thrown
            /\ IF ~DocxConverter
                 THEN /\ outcome' = [outcome EXCEPT ![p] = Ret(<<"Error: The DocxConverter is not available. Please ensure it is installed.">>)]
                      /\ pc' = [pc EXCEPT ![p] = "done"]
                 ELSE IF SignatureRejected(file_stream[p])
                 THEN /\ outcome' = [outcome EXCEPT ![p] = Ret(<<"Error: Not a valid Microsoft Word DOC file.">>)]
                      /\ pc' = [pc EXCEPT ![p] = "done"]
                 ELSE /\ pc' = [pc EXCEPT ![p] = "mkdtemp"]
                      /\ UNCHANGED outcome
  /\ UNCHANGED <<anchorVars, imageVars, env, fs, tmp_dir, docx_path, word, pending, trace>>

\* tempfile.mkdtemp() (line 86) creates a directory under a name no existing
\* directory has.
FixedDir == {1}
FreshDirs == {d \in Dirs : ~fs[d].exists}

Mkdtemp(p) ==
  /\ pc[p] = "mkdtemp"
  /\ \E d \in FreshDirs :
       /\ fs' = [fs EXCEPT ![d] = NewDir(p)]
       /\ tmp_dir' = [tmp_dir EXCEPT ![p] = d]
  /\ pc' = [pc EXCEPT ![p] = "copy"]
  /\ UNCHANGED <<anchorVars, imageVars, env, docx_path, word, pending, trace, thrown, outcome>>

\* lines 87-90, outside the try block: open(doc_path, "wb") and copyfileobj.
CopyStream(p) ==
  /\ pc[p] = "copy"
  /\ \E ok \in BOOLEAN :
       IF ok /\ fs[tmp_dir[p]].exists
         THEN /\ fs' = [fs EXCEPT ![tmp_dir[p]].doc = <<Body(p)>>]
              /\ pc' = [pc EXCEPT ![p] = IF platform = "win32" THEN "win_import" ELSE "unix"]
              /\ UNCHANGED <<thrown, outcome>>
         ELSE /\ Propagate(p, Exc("OSError", <<"cannot write input.doc">>))
              /\ UNCHANGED fs
  /\ UNCHANGED <<anchorVars, imageVars, env, tmp_dir, docx_path, word, pending, trace>>

\* _find_soffice (lines 187-195): shutil.which on "soffice", then on
\* "libreoffice"; the first one found wins.  "" stands for None.
find_soffice(which) ==
  IF which.soffice # "" THEN which.soffice
  ELSE IF which.libreoffice # "" THEN which.libreoffice
  ELSE ""

\* _convert_to_docx_unix (lines 149-185), called at line 97.
ConvertToDocxUnix(p) ==
  /\ pc[p] = "unix"
  /\ \E which \in [soffice : {"", "/usr/bin/soffice"}, libreoffice : {"", "/usr/bin/libreoffice"}],
        run \in {"exit 0", "exit 0, no output", "exit 1", "timeout", "cannot execute"},
        stderr \in Stderrs :
       IF find_soffice(which) = ""
         THEN /\ Caught(p, Exc("MissingDependencyException",
                   <<"LibreOffice/Soffice is not installed or not in the system's PATH. Please install it to convert .doc files.">>))
              /\ UNCHANGED <<fs, docx_path, trace>>
         ELSE /\ Log(p, Ev("soffice"))
              /\ IF run = "exit 1"
                   THEN /\ Caught(p, Exc("RuntimeError", <<"LibreOffice conversion failed: ">> \o ErrorMessage(stderr)))
                        /\ UNCHANGED <<fs, docx_path>>
                   ELSE IF run = "timeout"
                   THEN /\ Caught(p, Exc("RuntimeError", <<"LibreOffice conversion timed out after 60 seconds.">>))
                        /\ UNCHANGED <<fs, docx_path>>
                   ELSE IF run = "cannot execute"
                   THEN /\ Caught(p, Exc("OSError", <<"Permission denied: soffice">>))
                        /\ UNCHANGED <<fs, docx_path>>
                   ELSE /\ fs' = IF run = "exit 0" /\ fs[tmp_dir[p]].exists
                                   THEN [fs EXCEPT ![tmp_dir[p]].docx = ToDocx(fs[tmp_dir[p]].doc)]
                                   ELSE fs
                        /\ docx_path' = [docx_path EXCEPT ![p] = "input.docx"]
                        /\ pc' = [pc EXCEPT ![p] = "check"]
                        /\ UNCHANGED <<pending, thrown>>
  /\ UNCHANGED <<anchorVars, imageVars, env, tmp_dir, word, outcome>>

\* _convert_to_docx_windows, lines 120-130: the import of win32com.client.
WinImport(p) ==
  /\ pc[p] = "win_import"
  /\ IF ~win32com
       THEN Caught(p, Exc("MissingDependencyException", MissingDependencyMessage("doc (pywin32)")))
       ELSE /\ pc' = [pc EXCEPT ![p] = "win_dispatch"]
            /\ UNCHANGED <<pending, thrown>>
  /\ UNCHANGED <<anchorVars, imageVars, env, fs, tmp_dir, docx_path, word, trace, outcome>>

\* An exception inside the try block of _convert_to_docx_windows (lines
\* 133-144): it stays in flight while the finally clause (lines 145-147) runs.
WinRaise(p, what) ==
  /\ pending' = [pending EXCEPT ![p] = Exc("com_error", <<what>>)]
  /\ pc' = [pc EXCEPT ![p] = "win_quit"]

\* lines 132-135: Dispatch("Word.Application") and word.visible = 0.
WinDispatch(p) ==
  /\ pc[p] = "win_dispatch"
  /\ \E r \in {"ok", "Dispatch fails", "visible fails"} :
       IF r = "Dispatch fails"
         THEN \* word is still None: the finally clause calls nothing
              /\ Caught(p, Exc("com_error", <<"Invalid class string">>))
              /\ UNCHANGED <<word, trace>>
         ELSE /\ word' = [word EXCEPT ![p] = "running"]
              /\ Log(p, Ev("Dispatch"))
              /\ UNCHANGED thrown
              /\ IF r = "ok"
                   THEN /\ pc' = [pc EXCEPT ![p] = "win_open"]
                        /\ UNCHANGED pending
                   ELSE WinRaise(p, "visible")
  /\ UNCHANGED <<anchorVars, imageVars, env, fs, tmp_dir, docx_path, outcome>>

\* lines 137-138: word.Documents.Open(in_file)
WinOpen(p) ==
  /\ pc[p] = "win_open"
  /\ Log(p, Ev("Open"))
  /\ \E ok \in BOOLEAN :
       IF ok /\ fs[tmp_dir[p]].exists /\ fs[tmp_dir[p]].doc # <<>>
         THEN /\ pc' = [pc EXCEPT ![p] = "win_save"]
              /\ UNCHANGED pending
         ELSE WinRaise(p, "Open")
  /\ UNCHANGED <<anchorVars, imageVars, env, fs, tmp_dir, docx_path, word, thrown, outcome>>

\* lines 140-141: doc.SaveAs2(out_file, FileFormat=16)
WinSaveAs2(p) ==
  /\ pc[p] = "win_save"
  /\ Log(p, [op |-> "SaveAs2", arg |-> wdFormatDocumentDefault])
  /\ \E ok \in BOOLEAN :
       IF ok /\ fs[tmp_dir[p]].exists
         THEN /\ fs' = [fs EXCEPT ![tmp_dir[p]].docx = ToDocx(fs[tmp_dir[p]].doc)]
              /\ pc' = [pc EXCEPT ![p] = "win_close"]
              /\ UNCHANGED pending
         ELSE /\ WinRaise(p, "SaveAs2")
              /\ UNCHANGED fs
  /\ UNCHANGED <<anchorVars, imageVars, env, tmp_dir, docx_path, word, thrown, outcome>>

\* line 142: doc.Close(); line 144: return out_file
WinClose(p) ==
  /\ pc[p] = "win_close"
  /\ Log(p, Ev("Close"))
  /\ \E ok \in BOOLEAN :
       IF ok
         THEN /\ pc' = [pc EXCEPT ![p] = "win_quit"]
              /\ UNCHANGED pending
         ELSE WinRaise(p, "Close")
  /\ UNCHANGED <<anchorVars, imageVars, env, fs, tmp_dir, docx_path, word, thrown, outcome>>

\* line 146: `if word:`
QuitOnSuccessOnly(p) == word[p] # "None" /\ pending[p].kind = "none"
QuitNeeded(p) == word[p] # "None"

\* lines 145-147: the finally clause, then the return (to line 95) or the
\* exception in flight (to lines 110-111).
WinQuit(p) ==
  /\ pc[p] = "win_quit"
  /\ \E ok \in BOOLEAN :
       LET e == IF QuitNeeded(p) /\ ~ok THEN Exc("com_error", <<"Quit">>) ELSE pending[p]
       IN /\ IF QuitNeeded(p)
               THEN /\ Log(p, Ev("Quit"))
                    /\ word' = [word EXCEPT ![p] = "quit"]
               ELSE UNCHANGED <<trace, word>>
          /\ IF e.kind = "none"
               THEN /\ docx_path' = [docx_path EXCEPT ![p] = "input.docx"]
                    /\ pc' = [pc EXCEPT ![p] = "check"]
                    /\ UNCHANGED <<pending, thrown>>
               ELSE /\ Caught(p, e)
                    /\ UNCHANGED docx_path
  /\ UNCHANGED <<anchorVars, imageVars, env, fs, tmp_dir, outcome>>

\* line 99: `if not docx_path or not os.path.exists(docx_path)`
DocxMissing(p) ==
  \/ docx_path[p] = ""
  \/ ~(fs[tmp_dir[p]].exists /\ fs[tmp_dir[p]].docx # <<>>)

\* The staging directory removed as soon as the backend has returned, before
\* the produced file is handed on.
OpenDocxAfterCleanup(p) ==
  /\ pc[p] = "check"
  /\ fs' = [fs EXCEPT ![tmp_dir[p]] = NoDir]
  /\ Log(p, Ev("docx_converter.convert"))
  /\ pc' = [pc EXCEPT ![p] = "docx"]
  /\ UNCHANGED <<anchorVars, imageVars, env, tmp_dir, docx_path, word, pending, thrown, outcome>>

\* lines 99-108: the existence check, then open(docx_path, "rb") and the call
\* of docx_converter.convert on the open file.
OpenDocx(p) ==
  /\ pc[p] = "check"
  /\ IF DocxMissing(p)
       THEN /\ pending' = [pending EXCEPT ![p] = Ret(<<"Error: Failed to convert DOC to DOCX.">>)]
            /\ pc' = [pc EXCEPT ![p] = "finally"]
            /\ UNCHANGED <<trace, thrown>>
       ELSE \E ok \in BOOLEAN :
              IF ok /\ fs[tmp_dir[p]].exists /\ fs[tmp_dir[p]].docx # <<>>
                THEN /\ Log(p, Ev("docx_converter.convert"))
                     /\ pc' = [pc EXCEPT ![p] = "docx"]
                     /\ UNCHANGED <<pending, thrown>>
                ELSE /\ Caught(p, Exc("OSError", <<"cannot open input.docx">>))
                     /\ UNCHANGED trace
  /\ UNCHANGED <<anchorVars, imageVars, env, fs, tmp_dir, docx_path, word, outcome>>

\* line 108: docx_converter.convert reads the open file and returns its
\* result (or raises); the with block closes the file.
DocxConvert(p) ==
  /\ pc[p] = "docx"
  /\ \E ok \in BOOLEAN :
       IF ok /\ fs[tmp_dir[p]].exists /\ fs[tmp_dir[p]].docx # <<>>
         THEN /\ pending' = [pending EXCEPT ![p] = Ret(DocxMarkdown(fs[tmp_dir[p]].docx))]
              /\ Log(p, Ev("docx result"))
              /\ pc' = [pc EXCEPT ![p] = "finally"]
              /\ UNCHANGED thrown
         ELSE /\ Caught(p, Exc("Exception", <<"docx conversion failed">>))
              /\ Log(p, Ev("docx raised"))
  /\ UNCHANGED <<anchorVars, imageVars, env, fs, tmp_dir, docx_path, word, outcome>>

\* lines 113-114: shutil.rmtree(tmp_dir), then the pending return.
Finally(p) ==
  /\ pc[p] = "finally"
  /\ Log(p, Ev("rmtree"))
  /\ \E ok \in BOOLEAN :
       IF ok /\ fs[tmp_dir[p]].exists
         THEN /\ fs' = [fs EXCEPT ![tmp_dir[p]] = NoDir]
              /\ outcome' = [outcome EXCEPT ![p] = pending[p]]
              /\ pc' = [pc EXCEPT ![p] = "done"]
              /\ UNCHANGED thrown
         ELSE /\ Propagate(p, Exc("OSError", <<"rmtree failed">>))
              /\ UNCHANGED fs
  /\ UNCHANGED <<anchorVars, imageVars, env, tmp_dir, docx_path, word, pending>>

BridgeNext ==
  \E p \in Procs :
    \/ Start(p)
    \/ Mkdtemp(p)
    \/ CopyStream(p)
    \/ ConvertToDocxUnix(p)
    \/ WinImport(p)
    \/ WinDispatch(p)
    \/ WinOpen(p)
    \/ WinSaveAs2(p)
    \/ WinClose(p)
    \/ WinQuit(p)
    \/ OpenDocx(p)
    \/ DocxConvert(p)
    \/ Finally(p)

\* =====================================================================
\*                       _markdownify.py : convert_a
\* =====================================================================
\* Strings are sequences of tokens; a token is a run of characters that the
\* code treats alike.  Words are runs of ASCII letters.
Words == {"http", "HTTPS", "file", "javascript"}
HrefTokens == Words \cup {"1", ":", "/", " "}

RECURSIVE SeqsUpTo(_, _)
SeqsUpTo(S, n) ==
  IF n = 0 THEN {<<>>}
  ELSE LET shorter == SeqsUpTo(S, n - 1)
       IN shorter \cup {Append(s, x) : s \in {t \in shorter : Len(t) = n - 1}, x \in S}

Hrefs == SeqsUpTo(HrefTokens, MaxHrefLen)
Texts == {<<>>, <<" ">>, <<"a">>, <<" ", "a", " ">>, <<"file">>, <<"http", ":", "/", "/", "/">>}
Titles == {<<>>, <<"t", "\"">>}

RECURSIVE LStrip(_)
LStrip(s) == IF s # <<>> /\ Head(s) = " " THEN LStrip(Tail(s)) ELSE s
RECURSIVE RStrip(_)
RStrip(s) == IF s # <<>> /\ s[Len(s)] = " " THEN RStrip(SubSeq(s, 1, Len(s) - 1)) ELSE s

\* markdownify.chomp(text), called at line 51
chomp(text) ==
  [prefix |-> IF text # <<>> /\ text[1] = " " THEN <<" ">> ELSE <<>>,
   suffix |-> IF text # <<>> /\ text[Len(text)] = " " THEN <<" ">> ELSE <<>>,
   text |-> RStrip(LStrip(text))]

\* str.find: the first index of token t in s, 0 when absent
Find(s, t) == IF \E i \in DOMAIN s : s[i] = t
                THEN CHOOSE i \in DOMAIN s : s[i] = t /\ \A j \in 1..(i - 1) : s[j] # t
                ELSE 0

Lower(t) == IF t = "HTTPS" THEN "https" ELSE t
ToLower(s) == [i \in DOMAIN s |-> Lower(s[i])]

\* urllib.parse.urlparse(href), called at line 64: leading spaces are
\* stripped; a scheme is a run of letters, digits, "+", "-", "." that starts
\* with a letter and ends at the first ":"; it is lower-cased; "//" opens
\* the network location, which ends at the next "/".
urlparse(href) ==
  LET u == LStrip(href)
      i == Find(u, ":")
      hasScheme == /\ i > 1
                   /\ u[1] \in Words
                   /\ \A k \in 1..(i - 1) : u[k] \in Words \cup {"1"}
      rest == IF hasScheme THEN SubSeq(u, i + 1, Len(u)) ELSE u
      hasNetloc == Len(rest) >= 2 /\ rest[1] = "/" /\ rest[2] = "/"
      after == SubSeq(rest, 3, Len(rest))
      d == Find(after, "/")
  IN [scheme |-> IF hasScheme THEN ToLower(SubSeq(u, 1, i - 1)) ELSE <<>>,
      netloc |-> IF ~hasNetloc THEN <<>> ELSE IF d = 0 THEN after ELSE SubSeq(after, 1, d - 1),
      path |-> IF ~hasNetloc THEN rest ELSE IF d = 0 THEN <<>> ELSE SubSeq(after, d, Len(after))]

\* urllib.parse.unquote and quote (safe="/"), called at line 67
Unquote(t) == IF t = "%20" THEN " " ELSE IF t = "%3A" THEN ":" ELSE t
Quote(t) == IF t = " " THEN "%20" ELSE IF t = ":" THEN "%3A" ELSE t
QuoteUnquote(path) == [i \in DOMAIN path |-> Quote(Unquote(path[i]))]

\* urllib.parse.urlunparse, called at line 67
uses_netloc == {<<"http">>, <<"https">>, <<"file">>}
urlunparse(u) ==
  LET slashes == Len(u.path) >= 2 /\ u.path[1] = "/" /\ u.path[2] = "/"
      url == IF u.netloc # <<>> \/ (u.scheme # <<>> /\ u.scheme \in uses_netloc /\ ~slashes)
               THEN <<"/", "/">> \o u.netloc
                    \o (IF u.path # <<>> /\ u.path[1] # "/" THEN <<"/">> ELSE <<>>) \o u.path
               ELSE u.path
  IN IF u.scheme # <<>> THEN u.scheme \o <<":">> \o url ELSE url

\* line 65: the scheme test of `if parsed_url.scheme and parsed_url.scheme.lower() not in [...]`
AllowedSchemes == {<<"http">>, <<"https">>, <<"file">>}
JavascriptOnly(scheme) == scheme = <<"javascript">>
SchemeDropped(scheme) == scheme # <<>> /\ ToLower(scheme) \notin AllowedSchemes

\* line 74: text.replace(r"\_", "_")
Unescape(text) == [i \in DOMAIN text |-> IF text[i] = "\\_" THEN "_" ELSE text[i]]
\* line 82: title.replace('"', r'\"')
EscapeQuotes(title) == [i \in DOMAIN title |-> IF title[i] = "\"" THEN "\\\"" ELSE title[i]]

\* convert_a (lines 43-87).  el is [href, title, in_pre]; an absent attribute
\* and an empty one are both <<>> (the code only tests their truth).
convert_a(opts, el, text0) ==
  LET c == chomp(text0)
      text == c.text
      parsed == urlparse(el.href)
      href == IF el.href # <<>>
                THEN urlunparse([parsed EXCEPT !.path = QuoteUnquote(parsed.path)])
                ELSE el.href
      title == IF opts.default_title /\ el.title = <<>> THEN href ELSE el.title
      title_part == IF title # <<>> THEN <<" \"">> \o EscapeQuotes(title) \o <<"\"">> ELSE <<>>
  IN IF text = <<>> THEN <<>>
     ELSE IF el.in_pre THEN text
     ELSE IF el.href # <<>> /\ SchemeDropped(parsed.scheme) THEN c.prefix \o text \o c.suffix
     ELSE IF /\ opts.autolinks
             /\ Unescape(text) = href
             /\ el.title = <<>>
             /\ ~opts.default_title
       THEN <<"<">> \o href \o <<">">>
     ELSE IF href # <<>>
       THEN c.prefix \o <<"[">> \o text \o <<"](">> \o href \o title_part \o <<")">> \o c.suffix
     ELSE text

NoAnchor == [called |-> FALSE, autolinks |-> FALSE, default_title |-> FALSE,
             href |-> <<>>, title |-> <<>>, in_pre |-> FALSE, text |-> <<>>, result |-> <<>>]

\* One call of convert_a by the tree walk.
ConvertA ==
  /\ ~anchor.called
  /\ \E al \in BOOLEAN, dt \in BOOLEAN, href \in Hrefs, title \in Titles,
        in_pre \in BOOLEAN, text \in Texts :
       anchor' = [called |-> TRUE, autolinks |-> al, default_title |-> dt,
                  href |-> href, title |-> title, in_pre |-> in_pre, text |-> text,
                  result |-> convert_a([autolinks |-> al, default_title |-> dt],
                                       [href |-> href, title |-> title, in_pre |-> in_pre],
                                       text)]
  /\ UNCHANGED <<bridgeVars, imageVars>>

\* =====================================================================
\*        _markdownify.py : __init__, convert_img, convert_soup
\* =====================================================================
HttpSrc == <<"http://x/i.png">>
PngSrc == <<"data:", "image/", "png", ";base64,", "iVBORw==">>
GifSrc == <<"data:", "image/", "gif", ";base64,", "R0lGOD==">>
TextSrc == <<"data:", "text/plain", ";base64,", "aGk=">>
SvgSrc == <<"data:", "image/", "svg+xml", ",", "<svg/>">>
BadPaddingSrc == <<"data:", "image/", "png", ";base64,", "A">>

Img(alt, src, data_src, title, as_inline, parent) ==
  [alt |-> alt, src |-> src, data_src |-> data_src, title |-> title,
   convert_as_inline |-> as_inline, parent |-> parent]

\* The <img> elements a tree may hold.
Imgs == {
  Img(<<"a">>, HttpSrc, <<>>, <<>>, FALSE, "p"),
  Img(<<"a", "\n", "b">>, PngSrc, <<>>, <<"t", "\"">>, FALSE, "p"),
  Img(<<>>, <<>>, GifSrc, <<>>, FALSE, "p"),
  Img(<<"a">>, TextSrc, <<>>, <<>>, FALSE, "p"),
  Img(<<"a">>, SvgSrc, <<>>, <<>>, FALSE, "td"),
  Img(<<"a">>, PngSrc, <<>>, <<>>, TRUE, "p"),
  Img(<<"a">>, GifSrc, <<>>, <<>>, TRUE, "td"),
  Img(<<"a">>, BadPaddingSrc, <<>>, <<>>, FALSE, "p") }

ImgLists == SeqsUpTo(Imgs, MaxImgs)

\* The options a renderer object is constructed with (lines 21-23 fill in the
\* defaults); export_data_uris is <<>> when off, else the path prefix.
OptionSets ==
  [keep_data_uris : BOOLEAN, export_data_uris : {<<>>, <<"/out/">>},
   keep_inline_images_in : {{"td"}}]

\* f"{self.save_uri_index}" (line 117)
Str(k) == <<"0", "1", "2", "3", "4", "5", "6", "7", "8", "9">>[k + 1]

\* re.match(r"data:image/([^;]+);base64,(.*)", src) (line 113): the position
\* of ";base64," when src matches, else 0.
Base64Match(src) ==
  LET k == Find(src, ";base64,")
  IN IF Len(src) >= 4 /\ src[1] = "data:" /\ src[2] = "image/" /\ k >= 4 THEN k ELSE 0

\* src.split(",")[0] + "..." (lines 124, 126)
Truncate(src) ==
  LET k == IF Find(src, ",") = 0 THEN Find(src, ";base64,")
           ELSE IF Find(src, ";base64,") = 0 THEN Find(src, ",")
           ELSE IF Find(src, ",") < Find(src, ";base64,") THEN Find(src, ",") ELSE Find(src, ";base64,")
  IN IF k = 0 THEN src \o <<"...">>
     ELSE SubSeq(src, 1, k - 1) \o (IF src[k] = ";base64," THEN <<";base64">> ELSE <<>>) \o <<"...">>

\* base64.b64decode (line 122) raises binascii.Error on a payload whose
\* length is not a multiple of four.
B64Invalid(payload) == payload = <<"A">>

\* line 103: alt.replace("\n", " ")
FlattenAlt(alt) == [i \in DOMAIN alt |-> IF alt[i] = "\n" THEN " " ELSE alt[i]]

\* line 114: self.save_uri_index += 1
NextIndex(i) == i + 1

\* convert_img (lines 89-128) on renderer state st = [index, files, out,
\* exported, raised]: index is self.save_uri_index, files the file system,
\* out the strings returned so far, exported the paths written so far.
convert_img(st, opts, el) ==
  LET alt == FlattenAlt(el.alt)
      src == IF el.src # <<>> THEN el.src ELSE el.data_src
      title_part == IF el.title # <<>> THEN <<" \"">> \o EscapeQuotes(el.title) \o <<"\"">> ELSE <<>>
      tag(s) == <<"![">> \o alt \o <<"](">> \o s \o title_part \o <<")">>
      k == Base64Match(src)
      index == NextIndex(st.index)
      path == opts.export_data_uris \o <<"image", Str(index), ".">> \o SubSeq(src, 3, k - 1)
  IN IF el.convert_as_inline /\ el.parent \notin opts.keep_inline_images_in
       THEN [st EXCEPT !.out = Append(@, alt)]
     ELSE IF src # <<>> /\ src[1] = "data:"
       THEN IF opts.export_data_uris # <<>>
              THEN IF k # 0
                     THEN [index |-> index,
                           files |-> st.files \cup {opts.export_data_uris, path},
                           out |-> IF B64Invalid(SubSeq(src, k + 1, Len(src)))
                                     THEN st.out ELSE Append(st.out, tag(path)),
                           exported |-> Append(st.exported, path),
                           raised |-> B64Invalid(SubSeq(src, k + 1, Len(src)))]
                     ELSE [st EXCEPT !.out = Append(@, tag(Truncate(src)))]
            ELSE IF ~opts.keep_data_uris
              THEN [st EXCEPT !.out = Append(@, tag(Truncate(src)))]
            ELSE [st EXCEPT !.out = Append(@, tag(src))]
     ELSE [st EXCEPT !.out = Append(@, tag(src))]

\* The tree walk of convert_soup (lines 143-144): convert_img on each <img>
\* in document order, until one raises.
RECURSIVE Walk(_, _, _)
Walk(st, opts, imgs) ==
  IF imgs = <<>> \/ st.raised THEN st
  ELSE Walk(convert_img(st, opts, Head(imgs)), opts, Tail(imgs))

NoRender == [called |-> FALSE, first |-> TRUE, imgs |-> <<>>, out |-> <<>>,
             exported |-> <<>>, raised |-> FALSE]

DefaultOptions == [keep_data_uris |-> FALSE, export_data_uris |-> <<>>, keep_inline_images_in |-> {}]

\* No renderer call has been made.
RenderIdle ==
  /\ anchor = NoAnchor
  /\ options = DefaultOptions
  /\ save_uri_index = 0
  /\ files = {}
  /\ render = NoRender

\* A renderer object has just been constructed.
RenderInit ==
  /\ anchor = NoAnchor
  /\ options \in OptionSets
  /\ save_uri_index = 0
  /\ files = {}
  /\ render = NoRender

\* __init__ (lines 20-26): a new renderer object replaces the current one.
Construct ==
  /\ \E o \in OptionSets : options' = o
  /\ save_uri_index' = 0
  /\ render' = NoRender
  /\ UNCHANGED <<files, bridgeVars, anchorVars>>

\* convert_soup (lines 143-144) on the current renderer object.
ConvertSoup ==
  /\ \E imgs \in ImgLists :
       LET st == Walk([index |-> save_uri_index, files |-> files, out |-> <<>>,
                       exported |-> <<>>, raised |-> FALSE], options, imgs)
       IN /\ st.index <= MaxIndex
          /\ save_uri_index' = st.index
          /\ files' = st.files
          /\ render' = [called |-> TRUE, first |-> ~render.called, imgs |-> imgs,
                        out |-> st.out, exported |-> st.exported, raised |-> st.raised]
  /\ UNCHANGED <<options, bridgeVars, anchorVars>>

\* ---------------------------------------------------------- specifications
InitBridge == BridgeInit /\ RenderIdle
InitAnchor == BridgeIdle /\ RenderIdle
InitImage == BridgeIdle /\ RenderInit

NextImage == Construct \/ ConvertSoup

SpecBridge == InitBridge /\ [][BridgeNext]_vars
SpecAnchor == InitAnchor /\ [][ConvertA]_vars
SpecImage == InitImage /\ [][NextImage]_vars

\* =====================================================================
\*                              claims
\* =====================================================================
Done(p) == pc[p] = "done"
\* mkdtemp has returned in invocation p
Staged(p) == tmp_dir[p] # 0
\* the directory invocation p created is still there
StagingExists(p) == Staged(p) /\ fs[tmp_dir[p]].exists /\ fs[tmp_dir[p]].owner = p
HasOp(t, op) == \E i \in DOMAIN t : t[i].op = op
Calls(t, ops) == SelectSeq(t, LAMBDA e : e.op \in ops)
Raised(p, cls) == \E i \in DOMAIN thrown[p] : thrown[p][i] = cls

NotValidMessage == <<"Error: Not a valid Microsoft Word DOC file.">>
DocxUnavailableMessage == <<"Error: The DocxConverter is not available. Please ensure it is installed.">>

\* C1: whenever an invocation of convert that created a staging directory
\* has ended (by return or by exception), that directory no longer exists.
C1_StagingRemovedOnEveryExit ==
  \A p \in Procs : (Done(p) /\ Staged(p)) => ~StagingExists(p)

\* C2: an input whose leading bytes fail the compound-file signature check
\* never gets a staging directory, a backend run or a DocxConverter call, and
\* convert ends by returning a failure message.
C2_RejectedSignatureDoesNoWork ==
  \A p \in Procs :
    (olefile /\ ~IsOleFile(file_stream[p])) =>
      /\ ~Staged(p)
      /\ \A d \in Dirs : ~(fs[d].exists /\ fs[d].owner = p)
      /\ trace[p] = <<>>
      /\ word[p] = "None"
      /\ Done(p) => /\ outcome[p].kind = "return"
                    /\ outcome[p].text = IF DocxConverter THEN NotValidMessage
                                         ELSE DocxUnavailableMessage

C2_Witness ==
  \E p \in Procs :
    /\ Done(p) /\ olefile /\ DocxConverter /\ ~IsOleFile(file_stream[p])
    /\ outcome[p] = Ret(NotValidMessage)

\* C3: when olefile is absent, or pywin32 is absent on win32, convert ends by
\* raising MissingDependencyException to its caller.
C3_MissingDependencyIsRaised ==
  \A p \in Procs :
    (/\ Done(p)
     /\ thrown[p] = <<"MissingDependencyException">>
     /\ (~olefile \/ platform = "win32"))
    => (outcome[p].kind = "raise" /\ outcome[p].cls = "MissingDependencyException")

\* The external tool ran in invocation p and exited non-zero or timed out.
ToolFailed(p) == HasOp(trace[p], "soffice") /\ Raised(p, "RuntimeError")
ToolDiagnostics ==
  {<<"Error converting DOC file: ", "LibreOffice conversion timed out after 60 seconds.">>}
  \cup {<<"Error converting DOC file: ", "LibreOffice conversion failed: ">> \o ErrorMessage(e) : e \in Stderrs}

\* C4: when the external tool exits non-zero or times out, convert returns
\* (does not raise) a failure result carrying the diagnostic, DocxConverter
\* is never called, and the staging directory is removed.
C4_ToolFailureIsAResult ==
  \A p \in Procs :
    (Done(p) /\ ToolFailed(p)) =>
      /\ outcome[p].kind = "return"
      /\ outcome[p].text \in ToolDiagnostics
      /\ ~HasOp(trace[p], "docx_converter.convert")
      /\ ~StagingExists(p)

\* C4, apart from a failing rmtree: when the tool failed and the cleanup did
\* not raise, convert returned the diagnostic and removed the directory.
ToolFailureWithWorkingCleanup ==
  \A p \in Procs :
    (Done(p) /\ ToolFailed(p) /\ thrown[p] = <<"RuntimeError">>) =>
      /\ outcome[p].kind = "return"
      /\ outcome[p].text \in ToolDiagnostics
      /\ ~HasOp(trace[p], "docx_converter.convert")
      /\ ~StagingExists(p)

\* C5: once the signature check has passed, convert never ends by raising:
\* every exception of the orchestration becomes a returned error message.
C5_NoExceptionEscapes ==
  \A p \in Procs :
    (Done(p) /\ Staged(p)) =>
      /\ outcome[p].kind = "return"
      /\ thrown[p] # <<>> => outcome[p].text[1] = "Error converting DOC file: "

\* C6: while DocxConverter is reading, the staging directory and the
\* produced file exist; DocxConverter is only ever called after a backend run;
\* and an invocation that returns DocxConverter's result made its calls in
\* the order backend, DocxConverter called, DocxConverter returned, rmtree.
C6_ConvertBeforeCleanup ==
  \A p \in Procs :
    /\ pc[p] = "docx" => (StagingExists(p) /\ fs[tmp_dir[p]].docx # <<>>)
    /\ \A i \in DOMAIN trace[p] :
         trace[p][i].op = "docx_converter.convert" =>
           /\ \E j \in 1..(i - 1) : trace[p][j].op \in {"soffice", "SaveAs2"}
           /\ \A j \in 1..(i - 1) : trace[p][j].op # "rmtree"
    /\ (Done(p) /\ outcome[p].kind = "return" /\ outcome[p].text[1] = "markdown") =>
         /\ [i \in 1..4 |-> Calls(trace[p], {"soffice", "SaveAs2", "docx_converter.convert", "docx result", "docx raised", "rmtree"})[i].op]
              \in {<<b, "docx_converter.convert", "docx result", "rmtree">> : b \in {"soffice", "SaveAs2"}}
         /\ Len(Calls(trace[p], {"soffice", "SaveAs2", "docx_converter.convert", "docx result", "docx raised", "rmtree"})) = 4
         /\ ~StagingExists(p)

C6_Witness ==
  \E p \in Procs :
    /\ Done(p)
    /\ outcome[p] = Ret(<<"markdown", Body(p)>>)
    /\ HasOp(trace[p], "rmtree")

\* C7: concurrent invocations never share a staging directory: a directory
\* in use belongs to the invocation using it, holds only that invocation's
\* input.doc and input.docx, and a DocxConverter result is the Markdown of
\* the invocation's own document.
C7_InvocationsAreIsolated ==
  /\ \A p \in Procs :
       (Staged(p) /\ ~Done(p)) =>
          /\ StagingExists(p)
          /\ fs[tmp_dir[p]].doc \in {<<>>, <<Body(p)>>}
          /\ fs[tmp_dir[p]].docx \in {<<>>, ToDocx(<<Body(p)>>)}
  /\ \A p, q \in Procs :
       (p # q /\ Staged(p) /\ Staged(q) /\ ~Done(p) /\ ~Done(q)) => tmp_dir[p] # tmp_dir[q]
  /\ \A p \in Procs :
       (Done(p) /\ outcome[p].kind = "return" /\ outcome[p].text[1] = "markdown")
          => outcome[p].text = DocxMarkdown(ToDocx(<<Body(p)>>))

C7_Witness ==
  \E p, q \in Procs :
    /\ p # q
    /\ pc[p] = "docx" /\ pc[q] = "finally"
    /\ pending[q] = Ret(<<"markdown", Body(q)>>)
    /\ fs[tmp_dir[p]].docx = <<"docx", Body(p)>>

WinOps == {"Dispatch", "Open", "SaveAs2", "Close", "Quit"}
InWindowsBackend(p) == pc[p] \in {"win_import", "win_dispatch", "win_open", "win_save", "win_close", "win_quit"}

\* C8: a launched Word instance is running only inside
\* _convert_to_docx_windows; once that function has been left, Quit was the
\* last call made on a launched instance, whatever failed; and when the
\* function returned a path the calls were Dispatch, Open, SaveAs2 with
\* format 16, Close, Quit, in that order.
C8_WordAlwaysQuit ==
  \A p \in Procs :
    /\ word[p] = "running" => pc[p] \in {"win_open", "win_save", "win_close", "win_quit"}
    /\ (HasOp(trace[p], "Dispatch") /\ ~InWindowsBackend(p)) =>
         /\ word[p] = "quit"
         /\ Calls(trace[p], WinOps)[Len(Calls(trace[p], WinOps))].op = "Quit"
         /\ Len(Calls(trace[p], {"Quit"})) = 1
    /\ (platform = "win32" /\ docx_path[p] # "") =>
         Calls(trace[p], WinOps) = <<Ev("Dispatch"), Ev("Open"),
                                     [op |-> "SaveAs2", arg |-> 16], Ev("Close"), Ev("Quit")>>

C8_Witness ==
  \E p, q \in Procs :
    /\ Done(p) /\ Raised(p, "com_error") /\ HasOp(trace[p], "SaveAs2")
    /\ ~HasOp(trace[p], "Close") /\ HasOp(trace[p], "Quit")
    /\ Done(q) /\ docx_path[q] # "" /\ platform = "win32"

\* C9: an anchor with non-empty link text outside <pre> whose href has a
\* scheme other than http, https or file renders as prefix + text + suffix,
\* whatever autolinks, default_title and the title attribute are.
C9_OtherSchemesRenderAsText ==
  LET c == chomp(anchor.text)
      scheme == urlparse(anchor.href).scheme
  IN (/\ anchor.called
      /\ c.text # <<>>
      /\ ~anchor.in_pre
      /\ scheme # <<>>
      /\ scheme \notin {<<"http">>, <<"https">>, <<"file">>})
     => /\ anchor.result = c.prefix \o c.text \o c.suffix
        /\ \A i \in DOMAIN anchor.result : anchor.result[i] \notin {"[", "](", ")", "<", ">"}

C9_Witness ==
  /\ anchor.called
  /\ anchor.href = <<" ", "javascript", ":">>
  /\ anchor.text = <<" ", "a", " ">>
  /\ anchor.autolinks /\ anchor.default_title /\ anchor.title # <<>>
  /\ ~anchor.in_pre
  /\ anchor.result = <<" ", "a", " ">>

\* The <img> elements of a tree that convert_img exports, in document order,
\* up to the first whose payload does not decode.
RECURSIVE Exportable(_, _)
Exportable(opts, imgs) ==
  IF imgs = <<>> THEN <<>>
  ELSE LET el == Head(imgs)
           src == IF el.src # <<>> THEN el.src ELSE el.data_src
           elided == el.convert_as_inline /\ el.parent \notin opts.keep_inline_images_in
       IN IF ~elided /\ Base64Match(src) # 0
            THEN IF B64Invalid(SubSeq(src, Base64Match(src) + 1, Len(src)))
                   THEN <<src>>
                   ELSE <<src>> \o Exportable(opts, Tail(imgs))
            ELSE Exportable(opts, Tail(imgs))

\* C10: in every convert_soup call with export_data_uris set, the k-th
\* exported image is written to <prefix>image<k>.<format>, k counting from 1
\* within that call.
C10_NumberingStartsAtOneInEachRender ==
  (render.called /\ options.export_data_uris # <<>>) =>
    LET srcs == Exportable(options, render.imgs)
    IN render.exported =
         [k \in 1..Len(srcs) |->
            options.export_data_uris \o <<"image", Str(k), ".">>
              \o SubSeq(srcs[k], 3, Base64Match(srcs[k]) - 1)]

====
